---- MODULE Spec2Model ----
(***************************************************************************)
(* Model of trials_powercalc_sim.ipynb: the power-calculation search and   *)
(* the two Monte Carlo validation loops of the notebook.                   *)
(*                                                                         *)
(* The notebook is a set of cells run against one Python kernel whose      *)
(* globals are the state.  A cell runs to completion or stops at the line  *)
(* that raises; the assignments made before that line stay in the kernel.  *)
(*                                                                         *)
(* Real numbers.  alpha and p-values are held in hundredths;               *)
(* alpha/no_tails, the quantile level and cohens_d are exact reduced       *)
(* fractions; delta is held by its sign and its exact square; power and a  *)
(* probability returned by stats.nct.cdf are held on a scale               *)
(* 0..PowerScale.  The library                                             *)
(* evaluators (stats.t.ppf, stats.nct.cdf, stats.ttest_ind) are            *)
(* deterministic functions whose values the notebook does not fix: a value *)
(* of stats.nct.cdf is chosen when an argument triple is first evaluated   *)
(* and kept in lib, so that evaluating the same arguments again gives the  *)
(* same value; a p-value of stats.ttest_ind on fresh random samples is a   *)
(* free choice.                                                            *)
(***************************************************************************)
EXTENDS Integers, Sequences, FiniteSets, TLC

\* ------------------------------------------------------------ bounds
\* Largest max_allowed, resolution of the probability scale, largest trials_to_sim.
MaxAllowedBound == 4
PowerScale == 2
MaxTrials == 2

\* ------------------------------------------------- program constants
\* np.arange(2, ...), and the 0.05 of the two rate computations, in hundredths.
FirstCandidate == 2
SigPct == 5

\* ------------------------------------------------------------- state
VARIABLES
  \* design cells
  mean_group1, mean_group2, sd_group, alpha, power, no_tails, max_allowed,
  \* power-calculation cell
  alpha_tail, cohens_d, calc_power, delta, df, tcrit, n, search, error, iters,
  \* Monte Carlo cells
  sim_mean_group1, sim_mean_group2, sim_sd_group, sim_n1, sim_n2,
  trials_to_sim, trial_result, meas_power, meas_alpha, last_sim,
  \* statistics library, and the outcome of the run before the means were swapped
  lib, swapped, prev

designVars == <<mean_group1, mean_group2, sd_group, alpha, power, no_tails, max_allowed>>
solverVars == <<alpha_tail, cohens_d, calc_power, delta, df, tcrit, n, search, error, iters>>
simVars == <<sim_mean_group1, sim_mean_group2, sim_sd_group, sim_n1, sim_n2,
             trials_to_sim, trial_result, meas_power, meas_alpha, last_sim>>
vars == <<designVars, solverVars, simVars, lib, swapped, prev>>

\* A global name of the kernel is unbound, or bound to a value.
Unbound == <<>>
Bound(v) == <<v>>

\* ------------------------------------------------------ real numbers
Abs(x) == IF x < 0 THEN 0 - x ELSE x
Sign(x) == IF x < 0 THEN 0 - 1 ELSE IF x > 0 THEN 1 ELSE 0

RECURSIVE GCD(_, _)
GCD(a, b) == IF b = 0 THEN a ELSE GCD(b, a % b)

\* The fraction a/b (b # 0) in lowest terms with a positive denominator.
Frac(a, b) ==
  LET g == GCD(Abs(a), Abs(b))
      s == Sign(b)
  IN  [num |-> (s * a) \div g, den |-> (s * b) \div g]

\* A probability on the scale 0..PowerScale, or NaN.
Num(k) == [nan |-> FALSE, v |-> k]
NaN == [nan |-> TRUE, v |-> 0]
Levels == {Num(k) : k \in 0..PowerScale}

\* A float of the search: finite (sign, and what fixes its magnitude), infinite or nan.
DeltaZero == [kind |-> "fin", sgn |-> 0, sqn |-> 0, sqd |-> 1]
TcritZero == [kind |-> "fin", sgn |-> 0, qn |-> 1, qd |-> 2, df |-> 0]

\* np.abs(mean_group1-mean_group2)/sd_group: a numpy scalar division, which gives
\* inf or nan on a zero divisor instead of raising.
CohensDNoAbs(m1, m2, sd) ==
  IF sd = 0
  THEN [kind |-> IF m1 = m2 THEN "nan" ELSE "inf", sgn |-> Sign(m1 - m2), f |-> Frac(0, 1)]
  ELSE [kind |-> "fin", sgn |-> Sign(m1 - m2) * Sign(sd), f |-> Frac(Abs(m1 - m2), Abs(sd))]

CohensD(m1, m2, sd) ==
  IF sd = 0
  THEN [kind |-> IF m1 = m2 THEN "nan" ELSE "inf", sgn |-> Sign(Abs(m1 - m2)), f |-> Frac(0, 1)]
  ELSE [kind |-> "fin", sgn |-> Sign(Abs(m1 - m2)) * Sign(sd), f |-> Frac(Abs(m1 - m2), Abs(sd))]

\* cohens_d*np.sqrt(1/((1/n1)+(1/n2))) with n1 = n2 = k: cohens_d*sqrt(k/2), kept as
\* its sign and its square.
Delta(d, k) ==
  IF d.kind # "fin" THEN [kind |-> d.kind, sgn |-> d.sgn, sqn |-> 0, sqd |-> 1]
  ELSE IF d.sgn = 0 THEN DeltaZero
  ELSE LET sq == Frac(d.f.num * d.f.num * k, d.f.den * d.f.den * 2)
       IN  [kind |-> "fin", sgn |-> d.sgn, sqn |-> sq.num, sqd |-> sq.den]

\* n1 + n2 - 2 with n1 = n2 = k.
DfOneGroup(k) == k - 2

DegreesOfFreedom(k) == k + k - 2

\* alpha/no_tails for no_tails # 0, as a fraction of 1 (alpha is in hundredths).
AlphaTail(a, tails) == Frac(a, 100 * tails)

\* stats.t.ppf(1-alpha_tail, df): nan outside [0,1], -inf at 0, inf at 1, 0 at 1/2,
\* else the quantile, whose sign is that of q - 1/2.
TPpf(at, d) ==
  LET qn == at.den - at.num
      qd == at.den
  IN  IF qn < 0 \/ qn > qd THEN [kind |-> "nan", sgn |-> 0, qn |-> 0, qd |-> 1, df |-> 0]
      ELSE IF qn = 0 THEN [kind |-> "inf", sgn |-> 0 - 1, qn |-> 0, qd |-> 1, df |-> 0]
      ELSE IF qn = qd THEN [kind |-> "inf", sgn |-> 1, qn |-> 0, qd |-> 1, df |-> 0]
      ELSE IF 2 * qn = qd THEN TcritZero
      ELSE [kind |-> "fin", sgn |-> Sign(2 * qn - qd), qn |-> qn, qd |-> qd, df |-> d]

\* -tcrit
Neg(x) == [x EXCEPT !.sgn = 0 - x.sgn]

\* The values stats.nct.cdf(x, d, nc) may return: nan on a nan argument, the value
\* returned before for the same arguments, else a probability (on an infinite
\* argument possibly nan).
NctCdf(x, d, nc) ==
  IF x.kind = "nan" \/ nc.kind = "nan" THEN {NaN}
  ELSE LET seen == {e \in lib : e.x = x /\ e.df = d /\ e.nc = nc}
       IN  IF seen # {} THEN {e.val : e \in seen}
           ELSE IF x.kind = "inf" \/ nc.kind = "inf" THEN Levels \cup {NaN}
           ELSE Levels

\* A distribution function does not decrease: cdf(-t) <= cdf(t) for t >= 0.
Ordered(x, hi, lo) ==
  (~hi.nan /\ ~lo.nan) =>
     /\ x.sgn >= 0 => lo.v <= hi.v
     /\ x.sgn <= 0 => hi.v <= lo.v

\* 1-(hi-lo)
OneMinusDiff(hi, lo) ==
  IF hi.nan \/ lo.nan THEN NaN ELSE Num(PowerScale - (hi.v - lo.v))

\* calc_power[n] > power; a comparison with nan is False.
ExceedsOrTies(x, p) == ~x.nan /\ x.v >= p

Exceeds(x, p) == ~x.nan /\ x.v > p

\* --------------------------------------------------------- arrays
\* np.zeros((size,1)): Python index k is position k+1.
Zeros(size, zero) == [i \in 1..size |-> zero]
InBounds(arr, k) == (k + 1) \in DOMAIN arr
At(arr, k) == arr[k + 1]
Put(arr, k, v) == [arr EXCEPT ![k + 1] = v]

\* ------------------------------------------------------------ inputs
Means == {100, 110}
SdGroups == {0, 10}
Alphas == {5, 150}
Powers == 0..PowerScale
Tails == 0..3
MaxAlloweds == 2..MaxAllowedBound

\* The fields of a design that lie outside the domain the notebook's text assumes:
\* sd_group > 0, alpha and power in (0,1), no_tails 1 or 2.
OutOfDomain(sd, a, p, t) ==
  {f \in {"sd_group", "alpha", "power", "no_tails"} :
     \/ f = "sd_group" /\ ~(sd > 0)
     \/ f = "alpha" /\ ~(a > 0 /\ a < 100)
     \/ f = "power" /\ ~(p > 0 /\ p < PowerScale)
     \/ f = "no_tails" /\ ~(t \in {1, 2})}

ValidSpec == OutOfDomain(sd_group, alpha, power, no_tails) = {}

NoSim ==
  [scenario |-> "none", status |-> "none", error |-> "none", trials |-> 0,
   drawn |-> 0, mean1 |-> 0, mean2 |-> 0, sd |-> 0, n1 |-> 0, n2 |-> 0,
   rate |-> Unbound]

FreshKernel ==
  /\ alpha_tail = Unbound /\ cohens_d = Unbound
  /\ calc_power = Unbound /\ delta = Unbound /\ df = Unbound /\ tcrit = Unbound
  /\ n = Unbound /\ search = "idle" /\ error = "none" /\ iters = 0
  /\ sim_mean_group1 = Unbound /\ sim_mean_group2 = Unbound /\ sim_sd_group = Unbound
  /\ sim_n1 = Unbound /\ sim_n2 = Unbound
  /\ trials_to_sim = Unbound /\ trial_result = Unbound
  /\ meas_power = Unbound /\ meas_alpha = Unbound /\ last_sim = NoSim

\* The kernel after the two design cells have run with the user's values: a design
\* of the domain, or one with a single field outside it.
Init ==
  /\ mean_group1 \in Means /\ mean_group2 \in Means /\ sd_group \in SdGroups
  /\ alpha \in Alphas /\ power \in Powers /\ no_tails \in Tails
  /\ Cardinality(OutOfDomain(sd_group, alpha, power, no_tails)) <= 1
  /\ max_allowed \in MaxAlloweds
  /\ FreshKernel
  /\ lib = {} /\ swapped = FALSE /\ prev = Unbound

\* ------------------------------------------- power-calculation cell
\* The cell up to the loop: alpha/no_tails is a Python division and raises on 0.
SearchSetup ==
  /\ search = "idle"
  /\ IF no_tails = 0
     THEN /\ search' = "failed" /\ error' = "ZeroDivisionError"
          /\ UNCHANGED <<alpha_tail, cohens_d, calc_power, delta, df, tcrit>>
     ELSE /\ alpha_tail' = Bound(AlphaTail(alpha, no_tails))
          /\ calc_power' = Zeros(max_allowed, Num(0))
          /\ delta' = Zeros(max_allowed, DeltaZero)
          /\ df' = Zeros(max_allowed, 0)
          /\ tcrit' = Zeros(max_allowed, TcritZero)
          /\ cohens_d' = Bound(CohensD(mean_group1, mean_group2, sd_group))
          /\ search' = "loop" /\ error' = "none"
  /\ UNCHANGED <<n, iters, designVars, simVars, lib, swapped, prev>>

\* np.arange(2,max_allowed+1,1): the stop value (excluded), and the step.
ArangeStop(m) == m + 1

SkipCandidate(k) == k + 2

NextCandidate(k) == k + 1

\* One pass of the for loop: bind n, write the four records, test the power.
SearchStep ==
  /\ search = "loop"
  /\ LET k == IF n = Unbound THEN FirstCandidate ELSE NextCandidate(n[1])
     IN  IF k >= ArangeStop(max_allowed)
         THEN \* the range is used up: the loop ends with no break
              /\ search' = "ended"
              /\ UNCHANGED <<n, iters, calc_power, delta, df, tcrit, lib, error>>
         ELSE IF ~InBounds(delta, k)
         THEN \* delta[n] = ... raises IndexError; n is already bound
              /\ n' = Bound(k) /\ iters' = iters + 1
              /\ search' = "failed" /\ error' = "IndexError"
              /\ UNCHANGED <<calc_power, delta, df, tcrit, lib>>
         ELSE LET dl == Delta(cohens_d[1], k)
                  dg == DegreesOfFreedom(k)
                  tc == TPpf(alpha_tail[1], dg)
              IN  \E hi \in NctCdf(tc, dg, dl), lo \in NctCdf(Neg(tc), dg, dl) :
                    /\ (Neg(tc) = tc) => hi = lo
                    /\ Ordered(tc, hi, lo)
                    /\ n' = Bound(k) /\ iters' = iters + 1
                    /\ delta' = Put(delta, k, dl)
                    /\ df' = Put(df, k, dg)
                    /\ tcrit' = Put(tcrit, k, tc)
                    /\ calc_power' = Put(calc_power, k, OneMinusDiff(hi, lo))
                    /\ lib' = lib \cup {[x |-> tc, df |-> dg, nc |-> dl, val |-> hi],
                                        [x |-> Neg(tc), df |-> dg, nc |-> dl, val |-> lo]}
                    /\ search' = IF Exceeds(OneMinusDiff(hi, lo), power) THEN "done" ELSE "loop"
                    /\ UNCHANGED error
  /\ UNCHANGED <<alpha_tail, cohens_d, designVars, simVars, swapped, prev>>

\* The user swaps the two values of the first design cell and runs the notebook
\* again from a restarted kernel; prev keeps what the run before it produced.
Outcome ==
  [search |-> search, error |-> error, n |-> n, calc_power |-> calc_power,
   delta |-> delta, df |-> df, tcrit |-> tcrit]

SwapMeansAndRestart ==
  /\ search \in {"done", "failed", "ended"}
  /\ ~swapped
  /\ swapped' = TRUE
  /\ prev' = Bound(Outcome)
  /\ mean_group1' = mean_group2 /\ mean_group2' = mean_group1
  /\ alpha_tail' = Unbound /\ cohens_d' = Unbound
  /\ calc_power' = Unbound /\ delta' = Unbound /\ df' = Unbound /\ tcrit' = Unbound
  /\ n' = Unbound /\ search' = "idle" /\ error' = "none" /\ iters' = 0
  /\ sim_mean_group1' = Unbound /\ sim_mean_group2' = Unbound /\ sim_sd_group' = Unbound
  /\ sim_n1' = Unbound /\ sim_n2' = Unbound
  /\ trials_to_sim' = Unbound /\ trial_result' = Unbound
  /\ meas_power' = Unbound /\ meas_alpha' = Unbound /\ last_sim' = NoSim
  /\ UNCHANGED <<sd_group, alpha, power, no_tails, max_allowed, lib>>

\* ------------------------------------------------ Monte Carlo cells
\* The Monte Carlo cells are run once the power-calculation cell has run (to a
\* result or to an error), never while the kernel is inside its loop.
KernelFree == search \in {"done", "failed", "ended"}

TrialCounts == (0 - 1)..MaxTrials

\* The p-value of stats.ttest_ind on two fresh samples, in hundredths: one below
\* 0.05, and 0.05 itself, the least of those not below it; constant samples (sd 0)
\* give 0 or nan.
PValues(sd) ==
  IF sd = 0 THEN {NaN, Num(0)}
  ELSE {Num(SigPct - 1), Num(SigPct)}

PValueRuns(t, sd) == IF t >= 1 THEN [1..t -> PValues(sd)] ELSE {<<>>}

\* trial_result[:,1]<0.05, one row; a comparison with nan is False.
AtOrBelow(p, thr) == ~p.nan /\ p.v <= thr

Below(p, thr) == ~p.nan /\ p.v < thr

\* np.sum(trial_result[:,1]<0.05)
CountReject(res) == Cardinality({i \in DOMAIN res : Below(res[i], SigPct)})

\* count/trials_to_sim: a numpy scalar division, nan on 0/0.
Rate(c, t) ==
  IF t = 0 THEN [nan |-> TRUE, num |-> 0, den |-> 0]
  ELSE [nan |-> FALSE, num |-> c, den |-> t]

\* np.zeros((trials_to_sim,2)) and the for loop over range(trials_to_sim), with the
\* globals sm1..sn2 it reads and the p-values ps its trials give.
\*   alloc: trial_result was rebound; rate: Bound(the rate) when the cell got to it.
LoopOutcome(t, ps, sm1, sm2, ssd, sn1, sn2) ==
  IF t < 0
  THEN [status |-> "failed", error |-> "ValueError", alloc |-> FALSE,
        result |-> <<>>, rate |-> Unbound, drawn |-> 0]
  ELSE IF t >= 1 /\ Unbound \in {sm1, sm2, ssd, sn1, sn2}
  THEN [status |-> "failed", error |-> "NameError", alloc |-> TRUE,
        result |-> [i \in 1..t |-> Num(0)], rate |-> Unbound, drawn |-> 0]
  ELSE [status |-> "completed", error |-> "none", alloc |-> TRUE,
        result |-> ps, rate |-> Bound(Rate(CountReject(ps), t)), drawn |-> t]

\* What the trials of a run drew from: normal(mean, sd), n1 and n2 samples.
SimRecord(scenario, t, o, sm1, sm2, ssd, sn1, sn2) ==
  [scenario |-> scenario, status |-> o.status, error |-> o.error, trials |-> t,
   drawn |-> o.drawn,
   mean1 |-> IF o.drawn > 0 THEN sm1[1] ELSE 0,
   mean2 |-> IF o.drawn > 0 THEN sm2[1] ELSE 0,
   sd |-> IF o.drawn > 0 THEN ssd[1] ELSE 0,
   n1 |-> IF o.drawn > 0 THEN sn1[1] ELSE 0,
   n2 |-> IF o.drawn > 0 THEN sn2[1] ELSE 0,
   rate |-> o.rate]

\* Step 3, first cell: the scenario's parameters; sim_n1 = n raises NameError while
\* n is unbound, after the three assignments above it.
Step3Params ==
  /\ KernelFree
  /\ sim_mean_group1' = Bound(mean_group1)
  /\ sim_mean_group2' = Bound(mean_group2)
  /\ sim_sd_group' = Bound(sd_group)
  /\ IF n = Unbound THEN UNCHANGED <<sim_n1, sim_n2>>
     ELSE sim_n1' = n /\ sim_n2' = n
  /\ UNCHANGED <<trials_to_sim, trial_result, meas_power, meas_alpha, last_sim>>
  /\ UNCHANGED <<designVars, solverVars, lib, swapped, prev>>

\* Step 3, second cell: the loop over the globals as they are, then meas_power.
Step3MonteCarlo ==
  /\ KernelFree
  /\ \E t \in TrialCounts :
       \E ps \in PValueRuns(t, IF sim_sd_group = Unbound THEN 0 ELSE sim_sd_group[1]) :
         LET o == LoopOutcome(t, ps, sim_mean_group1, sim_mean_group2, sim_sd_group,
                              sim_n1, sim_n2)
         IN  /\ trials_to_sim' = Bound(t)
             /\ trial_result' = IF o.alloc THEN Bound(o.result) ELSE trial_result
             /\ meas_power' = IF o.rate # Unbound THEN o.rate ELSE meas_power
             /\ last_sim' = SimRecord("EFFECT_PRESENT", t, o, sim_mean_group1,
                                      sim_mean_group2, sim_sd_group, sim_n1, sim_n2)
  /\ UNCHANGED <<sim_mean_group1, sim_mean_group2, sim_sd_group, sim_n1, sim_n2, meas_alpha>>
  /\ UNCHANGED <<designVars, solverVars, lib, swapped, prev>>

\* Step 4: one cell that sets trials_to_sim and the parameters (group 2 gets
\* mean_group1), then runs the loop and sets meas_alpha.
Step4MonteCarlo ==
  /\ KernelFree
  /\ \E t \in TrialCounts :
       \E ps \in PValueRuns(t, sd_group) :
         /\ trials_to_sim' = Bound(t)
         /\ sim_mean_group1' = Bound(mean_group1)
         /\ sim_mean_group2' = Bound(mean_group1)
         /\ sim_sd_group' = Bound(sd_group)
         /\ IF n = Unbound
            THEN /\ UNCHANGED <<sim_n1, sim_n2, trial_result, meas_alpha>>
                 /\ last_sim' = [NoSim EXCEPT !.scenario = "EFFECT_ABSENT",
                                              !.status = "failed",
                                              !.error = "NameError", !.trials = t]
            ELSE LET o == LoopOutcome(t, ps, Bound(mean_group1), Bound(mean_group1),
                                      Bound(sd_group), n, n)
                 IN  /\ sim_n1' = n /\ sim_n2' = n
                     /\ trial_result' = IF o.alloc THEN Bound(o.result) ELSE trial_result
                     /\ meas_alpha' = IF o.rate # Unbound THEN o.rate ELSE meas_alpha
                     /\ last_sim' = SimRecord("EFFECT_ABSENT", t, o, Bound(mean_group1),
                                              Bound(mean_group1), Bound(sd_group), n, n)
  /\ UNCHANGED meas_power
  /\ UNCHANGED <<designVars, solverVars, lib, swapped, prev>>

\* ---------------------------------------------------- specifications
Next ==
  \/ SearchSetup
  \/ SearchStep
  \/ Step3Params
  \/ Step3MonteCarlo
  \/ Step4MonteCarlo

\* The notebook with the design values its cells hold, and the least ceiling under
\* which a candidate is evaluated.
InitNotebook ==
  /\ mean_group1 = 100 /\ mean_group2 = 110 /\ sd_group = 10
  /\ alpha = 5 /\ power = 1 /\ no_tails = 2
  /\ max_allowed = FirstCandidate + 1
  /\ FreshKernel
  /\ lib = {} /\ swapped = FALSE /\ prev = Unbound

Spec == InitNotebook /\ [][Next]_vars

\* The power calculation alone, over every design of the input sets.
SolverNext ==
  \/ SearchSetup
  \/ SearchStep
  \/ SwapMeansAndRestart

SolverSpec == Init /\ [][SolverNext]_vars

\* The power-calculation cell run once; the kernel runs a started cell on to its end.
SearchNext ==
  \/ SearchSetup
  \/ SearchStep

FairSearchSpec == Init /\ [][SearchNext]_vars /\ WF_vars(SearchStep)

\* ============================================================ claims
\* The four values written for candidate k, and the row np.zeros leaves.
RecordAt(k) == <<At(delta, k), At(df, k), At(tcrit, k), At(calc_power, k)>>
ZeroRecord == <<DeltaZero, 0, TcritZero, Num(0)>>
Indices == 0..(max_allowed - 1)

\* C1: for a valid design, when the search returns, the returned n is the smallest
\* candidate >= 2 whose computed power is strictly above the target: its own power
\* exceeds the target and every smaller candidate's power is at most the target (a
\* candidate whose power equals the target did not end the search).
C1_RequiredNIsMinimal ==
  (ValidSpec /\ search = "done") =>
     /\ n # Unbound
     /\ n[1] >= FirstCandidate
     /\ ~At(calc_power, n[1]).nan
     /\ At(calc_power, n[1]).v > power
     /\ \A k \in FirstCandidate..(n[1] - 1) :
          ~At(calc_power, k).nan /\ At(calc_power, k).v <= power

\* A search that passed a candidate whose power equals the target and returned the next.
C1_Witness ==
  /\ ValidSpec /\ search = "done" /\ n # Unbound
  /\ n[1] > FirstCandidate
  /\ At(calc_power, n[1] - 1) = Num(power)

\* C2 (as claimed): the ceiling is inclusive and running out of candidates is the
\* failure SearchExhausted, which leaves a record for every candidate 2..max_allowed.
C2_CeilingInclusive ==
  (ValidSpec /\ search \in {"failed", "ended"}) =>
     /\ error = "SearchExhausted"
     /\ \A k \in FirstCandidate..max_allowed : InBounds(df, k) /\ At(df, k) # 0

\* C3: the search always stops: the candidate goes up from 2 by exactly 1, never
\* passes max_allowed, at most max_allowed - 1 passes of the loop are made, and a
\* started loop ends with a returned n or with a failure.
C3_SearchTerminates ==
  /\ [](/\ iters <= max_allowed - 1
        /\ n # Unbound => (n[1] = iters + 1 /\ n[1] <= max_allowed))
  /\ [][(n' # n /\ n' # Unbound) =>
           n'[1] = (IF n = Unbound THEN FirstCandidate ELSE n[1] + 1)]_vars
  /\ (search = "loop") ~> (search \in {"done", "failed"})

\* A search that never reached its target and stopped at the ceiling after more than one pass.
C3_Witness ==
  /\ search = "failed" /\ n = Bound(max_allowed) /\ iters > 1

\* C4 (as claimed): with a design field outside its domain no candidate is
\* evaluated, no record is written and no n is returned.
C4_InvalidSpecNotEvaluated ==
  (~ValidSpec) =>
     /\ n = Unbound
     /\ search # "done"
     /\ calc_power # Unbound => \A k \in Indices : RecordAt(k) = ZeroRecord

\* C5 (as claimed): a Monte Carlo run asked for fewer than 1 trial fails and
\* produces no rejection rate.
C5_TrialCountRejected ==
  (last_sim.status # "none" /\ last_sim.trials < 1) =>
     /\ last_sim.status = "failed"
     /\ last_sim.rate = Unbound

\* C6 (as claimed): whatever ran before, the trials of the effect-present run draw
\* group 2 around mean_group2 and those of the effect-absent run around mean_group1.
C6_RunIndependentOfHistory ==
  (last_sim.drawn > 0) =>
     last_sim.mean2 =
       (IF last_sim.scenario = "EFFECT_PRESENT" THEN mean_group2 ELSE mean_group1)

\* C7 (as claimed): the trials of the effect-present run use the means
\* (mean_group1, mean_group2), those of the effect-absent run (mean_group1,
\* mean_group1), and both draw n samples a group with sd_group.
C7_ScenarioParameters ==
  (last_sim.drawn > 0) =>
     /\ last_sim.scenario = "EFFECT_PRESENT" =>
          <<last_sim.mean1, last_sim.mean2>> = <<mean_group1, mean_group2>>
     /\ last_sim.scenario = "EFFECT_ABSENT" =>
          <<last_sim.mean1, last_sim.mean2>> = <<mean_group1, mean_group1>>
     /\ <<last_sim.n1, last_sim.n2>> = <<n[1], n[1]>>
     /\ last_sim.sd = sd_group

\* trial_result with rows i and j exchanged.
Exchanged(res, i, j) ==
  [k \in DOMAIN res |-> IF k = i THEN res[j] ELSE IF k = j THEN res[i] ELSE res[k]]

\* C8: after a run of trials >= 1 repetitions exactly that many outcomes are held,
\* the rate is (number of trials whose p-value is strictly below 0.05)/trials, it
\* lies in [0,1], and exchanging any two rows of the results leaves it the same.
C8_RejectionRate ==
  (last_sim.status = "completed" /\ last_sim.trials >= 1) =>
     LET res == trial_result[1]
         rate == last_sim.rate[1]
         rejecting == {i \in 1..Len(res) : ~res[i].nan /\ res[i].v < SigPct}
     IN  /\ trials_to_sim = Bound(last_sim.trials)
         /\ Len(res) = last_sim.trials
         /\ last_sim.drawn = last_sim.trials
         /\ ~rate.nan
         /\ rate.den = last_sim.trials
         /\ rate.num = Cardinality(rejecting)
         /\ 0 <= rate.num /\ rate.num <= rate.den
         /\ (IF last_sim.scenario = "EFFECT_PRESENT" THEN meas_power ELSE meas_alpha)
              = Bound(rate)
         /\ \A i, j \in 1..Len(res) :
              Rate(CountReject(Exchanged(res, i, j)), Len(res)) = rate

\* A run of two trials, one with a p-value of exactly 0.05 and one below it.
C8_Witness ==
  /\ last_sim.status = "completed" /\ last_sim.trials = 2
  /\ trial_result = Bound(<<Num(SigPct), Num(SigPct - 1)>>)
  /\ last_sim.rate = Bound(Rate(1, 2))

\* C9: with the two means swapped and all else equal the search ends the same way
\* (same returned n or same failure) with the same record at every index.
C9_SwapSymmetry ==
  (swapped /\ search \in {"done", "failed", "ended"}) => Outcome = prev[1]

\* Both runs of a design with different means returned after more than one candidate.
C9_Witness ==
  /\ swapped /\ search = "done" /\ mean_group1 # mean_group2
  /\ n # Unbound /\ n[1] > FirstCandidate
  /\ Outcome = prev[1]

====
